---------------------------- MODULE Spec2Model ----------------------------
(***************************************************************************)
(* The practice / quiz session engine of ccna-tutor, as a state machine.   *)
(*                                                                         *)
(* src/ccna-tutor/static/js/practice.js holds two engines: the linear      *)
(* practice session (lines 1-456, static/js/practice.js) and the           *)
(* concept-group quiz session (lines 586-1078, static/js/quiz.js in        *)
(* QUIZ_TEST_REPORT.md).  A page runs one of them; `page` says which.      *)
(*                                                                         *)
(* The state is the engine's module-level object (quizState or             *)
(* practiceState), the part of the DOM the handlers read and write, the    *)
(* popup window, the fetches in flight and the window messages in flight.  *)
(* One action per DOM event, response, failure or message.  The servers    *)
(* and the popup page are collaborators: their answers are chosen          *)
(* nondeterministically.                                                   *)
(***************************************************************************)
EXTENDS Integers, Sequences, FiniteSets, Bags, TLC

VARIABLES
    page,           \* "quiz" or "practice": which page the script runs on
    quizState,      \* the quizState object (practice.js 588-598)
    practiceState,  \* the practiceState object (practice.js 16-27)
    dom,            \* the DOM elements the handlers read and write
    popup,          \* the window named 'DragDropQuestion'
    arrays,         \* the seen_questions arrays (shared by reference)
    pending,        \* fetches in flight, each with what its closure captured
    msgs,           \* window messages posted and not yet handled
    server          \* the collaborators' own session state, and the
                    \* protocol chosen in the selector of the quiz page

vars == <<page, quizState, practiceState, dom, popup, arrays, pending, msgs, server>>

----------------------------------------------------------------------------
(* Bounds of the model *)

NumGroups == 2      \* concept groups the quiz start response can carry
GroupSize == 2      \* questions in the pool of a concept group
NumChoices == 2     \* choices of a multiple-choice question (a, b)
NumQuestions == 2   \* questions of a linear practice session
MaxInFlight == 2    \* fetches in flight at once
MaxMsgs == 1        \* window messages in flight at once
MaxSessions == 1    \* start requests of the quiz on one page load
MaxAttempt == 2     \* attempt number up to which the student keeps answering

\* wrong attempts after which the grading collaborator of the practice
\* session offers the reveal
RevealThreshold == 2

----------------------------------------------------------------------------
(* The question catalogue the collaborators serve *)

Letters == 1..NumChoices            \* 1 is "a", 2 is "b", ...

\* the protocols of the selector: protocol 0 has no concept group, the
\* others have NumGroups each
Protocols == {0, 1, 2}

\* the group ids of a protocol: 10 * protocol + position
GroupIdsOf(protocol) ==
    IF protocol = 0 THEN <<>> ELSE [i \in 1..NumGroups |-> 10 * protocol + i]

\* question ids of group g: 10*g + 1 .. 10*g + GroupSize
Pool(g) == {10 * g + k : k \in 1..GroupSize}

GroupOf(q) == q \div 10

\* the questions of a group are of one kind.  Protocol 1: single-select,
\* drag and drop, multi-select, ...; protocol 2: drag and drop,
\* multi-select, single-select, ...
QuizKind(q) ==
    LET g == GroupOf(q)
        n == ((g % 10) + (g \div 10) - 2) % 3
    IN CASE n = 0 -> "single"
         [] n = 1 -> "drag_drop"
         [] OTHER -> "multi"

\* the correct_answer of a question, as the sorted sequence of its letters
CorrectAnswer(kind) == IF kind = "multi" THEN <<1, 2>> ELSE <<1>>

\* the correct answer of a question of the quiz
QuizCorrect(q) == CorrectAnswer(QuizKind(q))

----------------------------------------------------------------------------
(* Helpers *)

\* Array.prototype.sort followed by join(','): the letters in ascending
\* order.  SelectedDescending is the collection that orders them the other
\* way round.
RECURSIVE SelectedDescending(_)
SelectedDescending(S) ==
    IF S = {} THEN <<>>
    ELSE LET m == CHOOSE x \in S : \A y \in S : x >= y
         IN <<m>> \o SelectedDescending(S \ {m})

RECURSIVE SortedSeq(_)
SortedSeq(S) ==
    IF S = {} THEN <<>>
    ELSE LET m == CHOOSE x \in S : \A y \in S : x <= y
         IN <<m>> \o SortedSeq(S \ {m})

SeqElems(s) == {s[i] : i \in 1..Len(s)}

NoScores == [g \in {} |-> 0]

\* pending is a bag: two clicks can send the same request twice
Reqs(kind) == {r \in BagToSet(pending) : r.kind = kind}

Send(r) == pending (+) SetToBag({r})

Done(r) == pending (-) SetToBag({r})

\* the fetches that count against the in-flight bound of the model
CanSend == BagCardinality(pending) - Cardinality(Reqs("ddq")) < MaxInFlight

\* the handlers work on the engine state, the DOM and the popup together
World == [qs |-> quizState, dom |-> dom, popup |-> popup]

SetWorld(w) ==
    /\ quizState' = w.qs
    /\ dom' = w.dom
    /\ popup' = w.popup

HasCurrentGroup(qs) == qs.currentIndex + 1 <= Len(qs.conceptGroups)

CurrentGroup(qs) == qs.conceptGroups[qs.currentIndex + 1]

NoArea == [kind |-> "none", q |-> 0, multi |-> FALSE]

----------------------------------------------------------------------------
(* The seen_questions arrays.  A concept group holds a reference to its    *)
(* array (0: the property is undefined); a more-from-group closure holds a *)
(* reference to the array it read, or to the fresh [] it made.             *)

ArrIds == 1..(NumGroups + MaxInFlight + 1)

ArrRefs(qs, reqs) ==
    {qs.conceptGroups[i].seen : i \in 1..Len(qs.conceptGroups)}
        \cup {r.arr : r \in {x \in BagToSet(reqs) : x.kind = "more"}}

FreshArr == CHOOSE a \in ArrIds : a \notin ArrRefs(quizState, pending)

\* arrays nothing refers to any more are dropped
Collect(arrs, qs, reqs) ==
    [a \in ArrIds |-> IF a \in ArrRefs(qs, reqs) THEN arrs[a] ELSE <<>>]

----------------------------------------------------------------------------
(* Quiz engine: the handlers as functions of the world *)

\* practice.js 793-796, 993-995, 1021-1023, 1061-1063
ClosePopupIfOpen(w) ==
    IF w.qs.dragDropWindow = "window" /\ w.popup.open
    THEN [w EXCEPT !.popup = [open |-> FALSE, q |-> 0]]
    ELSE w

\* Math.round(100 * part / total) for total > 0
RoundedPercentage(part, total) == (200 * part + total) \div (2 * total)

\* showSummary: the groups of the strong list, the entries of the weak list
\* and the final score, computed from quizState.scores
StrongAreas(scores) ==
    {scores[g].concept : g \in {x \in DOMAIN scores : scores[x].firstAttemptCorrect}}

WeakAreas(scores) ==
    {[concept |-> scores[g].concept, attempts |-> scores[g].attempts] :
        g \in {x \in DOMAIN scores : ~scores[x].firstAttemptCorrect}}

FinalScore(scores) ==
    LET totalConcepts == Cardinality(DOMAIN scores)
        firstAttemptCorrect ==
            Cardinality({g \in DOMAIN scores : scores[g].firstAttemptCorrect})
    IN IF totalConcepts > 0 THEN RoundedPercentage(firstAttemptCorrect, totalConcepts)
       ELSE 0

\* ShowSummaryAllStrong is the function that lists every recorded group in
\* the strong list.
ShowSummaryAllStrong(w) ==
    LET w1 == ClosePopupIfOpen(w)
    IN [w1 EXCEPT !.dom.interface = FALSE, !.dom.summary = TRUE,
                  !.dom.finalScore = FinalScore(w1.qs.scores),
                  !.dom.covered = Cardinality(DOMAIN w1.qs.scores),
                  !.dom.strong = {w1.qs.scores[g].concept : g \in DOMAIN w1.qs.scores},
                  !.dom.weak = {}]

ShowSummary(w) ==
    LET w1 == ClosePopupIfOpen(w)
    IN [w1 EXCEPT !.dom.interface = FALSE, !.dom.summary = TRUE,
                  !.dom.finalScore = FinalScore(w1.qs.scores),
                  !.dom.covered = Cardinality(DOMAIN w1.qs.scores),
                  !.dom.strong = StrongAreas(w1.qs.scores),
                  !.dom.weak = WeakAreas(w1.qs.scores)]

DisplayDragDropQuestion(w, q) ==
    [w EXCEPT !.dom.area = [kind |-> "dragOpen", q |-> q, multi |-> FALSE],
              !.dom.checked = {},
              !.dom.disabled = {},
              !.dom.feedback = "hidden",
              !.dom.submit = FALSE,
              !.dom.tryAgain = FALSE,
              !.dom.more = FALSE,
              !.dom.next = TRUE]

DisplayCurrentQuestion(w) ==
    IF ~HasCurrentGroup(w.qs) THEN ShowSummary(w)
    ELSE LET q == CurrentGroup(w.qs).question
         IN IF QuizKind(q) = "drag_drop" THEN DisplayDragDropQuestion(w, q)
            ELSE [w EXCEPT !.dom.area = [kind |-> "mc", q |-> q,
                                          multi |-> QuizKind(q) = "multi"],
                           !.dom.checked = {},
                           !.dom.disabled = {},
                           !.dom.feedback = "hidden",
                           !.dom.submit = TRUE,
                           !.dom.tryAgain = FALSE,
                           !.dom.more = FALSE,
                           !.dom.next = FALSE,
                           !.qs.attemptNumber = 1]

\* nextTopic().  NextTopicWrapAround is the handler that goes back to the
\* first group after the last one instead of showing the summary.
NextTopicWrapAround(w) ==
    LET w1 == ClosePopupIfOpen(w)
        w2 == [w1 EXCEPT !.qs.currentIndex =
                              IF @ + 1 >= Len(w1.qs.conceptGroups) THEN 0 ELSE @ + 1,
                         !.dom.disabled = {}]
    IN DisplayCurrentQuestion(w2)

NextTopic(w) ==
    LET w1 == ClosePopupIfOpen(w)
        w2 == [w1 EXCEPT !.qs.currentIndex = @ + 1, !.dom.disabled = {}]
    IN IF w2.qs.currentIndex >= Len(w2.qs.conceptGroups)
       THEN ShowSummary(w2)
       ELSE DisplayCurrentQuestion(w2)

\* the outcome record written to quizState.scores
Outcome(attemptNumber, group) ==
    [firstAttemptCorrect |-> attemptNumber = 1,
     attempts |-> attemptNumber,
     concept |-> group.group_id]

\* the listener of window messages.  HandleDragDropMessageNoCount is the
\* listener that does not count a completion without success.
HandleDragDropMessageNoCount(w, data) ==
    IF data.type # "dragDropComplete" THEN w
    ELSE IF ~HasCurrentGroup(w.qs) THEN w
    ELSE LET currentGroup == CurrentGroup(w.qs)
         IN IF data.correct
            THEN [w EXCEPT !.qs.scores =
                               (currentGroup.group_id :>
                                    Outcome(w.qs.attemptNumber, currentGroup)) @@ @,
                           !.dom.feedback = "success",
                           !.dom.area = [kind |-> "dragDone", q |-> 0, multi |-> FALSE],
                           !.dom.checked = {},
                           !.dom.disabled = {},
                           !.dom.submit = FALSE,
                           !.dom.tryAgain = FALSE,
                           !.dom.more = FALSE,
                           !.dom.next = TRUE]
            ELSE [w EXCEPT !.dom.feedback = "warning",
                           !.dom.area = [kind |-> "dragRetry", q |-> data.questionId,
                                         multi |-> FALSE],
                           !.dom.checked = {},
                           !.dom.disabled = {},
                           !.dom.next = TRUE]

\* HandleDragDropMessageNoReturn is the handler without the return on a
\* missing current group: the branch of a failed completion runs anyway.
HandleDragDropMessageNoReturn(w, data) ==
    IF data.type # "dragDropComplete" THEN w
    ELSE IF ~HasCurrentGroup(w.qs)
    THEN IF data.correct THEN w
         ELSE [w EXCEPT !.dom.feedback = "warning",
                        !.dom.area = [kind |-> "dragRetry", q |-> data.questionId,
                                      multi |-> FALSE],
                        !.dom.checked = {},
                        !.dom.disabled = {},
                        !.qs.attemptNumber = @ + 1,
                        !.dom.next = TRUE]
    ELSE LET currentGroup == CurrentGroup(w.qs)
         IN IF data.correct
            THEN [w EXCEPT !.qs.scores =
                               (currentGroup.group_id :>
                                    Outcome(w.qs.attemptNumber, currentGroup)) @@ @,
                           !.dom.feedback = "success",
                           !.dom.area = [kind |-> "dragDone", q |-> 0, multi |-> FALSE],
                           !.dom.checked = {},
                           !.dom.disabled = {},
                           !.dom.submit = FALSE,
                           !.dom.tryAgain = FALSE,
                           !.dom.more = FALSE,
                           !.dom.next = TRUE]
            ELSE [w EXCEPT !.dom.feedback = "warning",
                           !.dom.area = [kind |-> "dragRetry", q |-> data.questionId,
                                         multi |-> FALSE],
                           !.dom.checked = {},
                           !.dom.disabled = {},
                           !.qs.attemptNumber = @ + 1,
                           !.dom.next = TRUE]

HandleDragDropMessage(w, data) ==
    IF data.type # "dragDropComplete" THEN w
    ELSE IF ~HasCurrentGroup(w.qs) THEN w
    ELSE LET currentGroup == CurrentGroup(w.qs)
         IN IF data.correct
            THEN [w EXCEPT !.qs.scores =
                               (currentGroup.group_id :>
                                    Outcome(w.qs.attemptNumber, currentGroup)) @@ @,
                           !.dom.feedback = "success",
                           !.dom.area = [kind |-> "dragDone", q |-> 0, multi |-> FALSE],
                           !.dom.checked = {},
                           !.dom.disabled = {},
                           !.dom.submit = FALSE,
                           !.dom.tryAgain = FALSE,
                           !.dom.more = FALSE,
                           !.dom.next = TRUE]
            ELSE [w EXCEPT !.dom.feedback = "warning",
                           !.dom.area = [kind |-> "dragRetry", q |-> data.questionId,
                                         multi |-> FALSE],
                           !.dom.checked = {},
                           !.dom.disabled = {},
                           !.qs.attemptNumber = @ + 1,
                           !.dom.next = TRUE]

\* The then-callback of submitAnswer for a payload without error.  The
\* outcome is recorded under the guard if (!quizState.scores[group_id]);
\* SubmitOkOverwrite is the callback without that guard.
SubmitOkOverwrite(w, req, data) ==
    IF data.correct
    THEN [w EXCEPT !.dom.feedback = "success",
                   !.qs.scores =
                       (req.group_id :> Outcome(w.qs.attemptNumber, req)) @@ @,
                   !.dom.submit = FALSE,
                   !.dom.more = IF data.more_in_group > 0 THEN TRUE ELSE @,
                   !.dom.next = TRUE]
    ELSE [w EXCEPT !.dom.feedback = "danger",
                   !.qs.attemptNumber = data.attempt + 1,
                   !.dom.submit = FALSE,
                   !.dom.tryAgain = TRUE]

SubmitOk(w, req, data) ==
    IF data.correct
    THEN [w EXCEPT !.dom.feedback = "success",
                   !.qs.scores =
                       IF req.group_id \in DOMAIN @ THEN @
                       ELSE (req.group_id :> Outcome(w.qs.attemptNumber, req)) @@ @,
                   !.dom.submit = FALSE,
                   !.dom.more = IF data.more_in_group > 0 THEN TRUE ELSE @,
                   !.dom.next = TRUE]
    ELSE [w EXCEPT !.dom.feedback = "danger",
                   !.qs.attemptNumber = data.attempt + 1,
                   !.dom.submit = FALSE,
                   !.dom.tryAgain = TRUE]

\* the object restartQuiz assigns; dragDropQuestions is preserved.
\* FreshQuizStateNoCatalog is the object with dragDropQuestions: [].
FreshQuizStateNoCatalog(dragDropQuestions) ==
    [sessionId |-> 0,
     conceptGroups |-> <<>>,
     currentIndex |-> 0,
     attemptNumber |-> 1,
     scores |-> NoScores,
     totalConcepts |-> 0,
     dragDropWindow |-> "null",
     dragDropQuestions |-> "none"]

FreshQuizState(dragDropQuestions) ==
    [sessionId |-> 0,
     conceptGroups |-> <<>>,
     currentIndex |-> 0,
     attemptNumber |-> 1,
     scores |-> NoScores,
     totalConcepts |-> 0,
     dragDropWindow |-> "null",
     dragDropQuestions |-> dragDropQuestions]

----------------------------------------------------------------------------
(* The grading / content collaborator of the quiz (QUIZ_TEST_REPORT.md)    *)

\* POST /api/quiz/submit: exact-match grading, the attempt number echoed,
\* the count of further questions of the group
SubmitPayloads(req) ==
    {[correct |-> req.student_answer = QuizCorrect(req.question_id),
      attempt |-> req.attempt_number,
      more_in_group |-> m] : m \in {0, 1}}

\* GET /api/quiz/group-question/<group_id>?exclude=..: another question of
\* the group that is not in the exclusion list
MoreQuestions(req) == Pool(req.group_id) \ SeqElems(req.exclude)

\* the question of a group that the start response carries
Representative(g) == 10 * g + 1

\* GET /api/quiz/start/<protocol>: one representative question per group
StartGroups(protocol) ==
    LET ids == GroupIdsOf(protocol)
    IN [i \in 1..Len(ids) |->
           [group_id |-> ids[i], question |-> Representative(ids[i]), seen |-> 0]]

----------------------------------------------------------------------------
(* Initial state *)

InitQuizState == FreshQuizState("none")

\* practice.js 16-27
InitPracticeState ==
    [currentQuestion |-> 0,
     questionNumber |-> 0,
     correctCount |-> 0,
     incorrectCount |-> 0,
     skippedCount |-> 0,
     attemptNumber |-> 0,
     disabledChoices |-> {},
     canReveal |-> FALSE]

\* The elements of the page before the first question is displayed: on the
\* quiz page the setup section is shown; on the practice page (setup is
\* FALSE there) the card waits for the first question.
InitDom(p) ==
    [setup |-> p = "quiz", interface |-> FALSE, summary |-> FALSE,
     submit |-> FALSE, submitDisabled |-> FALSE, tryAgain |-> FALSE,
     more |-> FALSE, next |-> FALSE, skip |-> FALSE, reveal |-> FALSE,
     loading |-> FALSE,
     feedback |-> "hidden", area |-> NoArea, checked |-> {}, disabled |-> {},
     finalScore |-> 0, covered |-> 0, strong |-> {}, weak |-> {}]

\* The page is the quiz page (the catalogue fetch is in flight, a protocol
\* is selected) or the practice page (the start-session fetch is in flight).
Init ==
    /\ page \in {"quiz", "practice"}
    /\ quizState = InitQuizState
    /\ practiceState = InitPracticeState
    /\ dom = InitDom(page)
    /\ popup = [open |-> FALSE, q |-> 0]
    /\ arrays = [a \in ArrIds |-> <<>>]
    /\ pending = SetToBag({[kind |-> IF page = "quiz" THEN "ddq" ELSE "pstart"]})
    /\ msgs = {}
    /\ \E protocol \in Protocols :
          /\ page = "practice" => protocol = 0
          /\ server = [nextSid |-> 1, protocol |-> protocol,
                       cur |-> 0, wrong |-> [q \in 1..NumQuestions |-> 0],
                       correct |-> {}, revealed |-> {}, skipped |-> {}]

----------------------------------------------------------------------------
(* Quiz engine: the events *)

\* The catalogue fetch is sent when the page loads; the model lets its
\* response arrive before the first click on start only.
LoadDragDropQuestionsOk(r) ==
    /\ page = "quiz"
    /\ r.kind = "ddq"
    /\ server.nextSid = 1
    /\ quizState' = [quizState EXCEPT !.dragDropQuestions = "loaded"]
    /\ pending' = Done(r)
    /\ UNCHANGED <<page, practiceState, dom, popup, arrays, msgs, server>>

LoadDragDropQuestionsFailed(r) ==
    /\ page = "quiz"
    /\ r.kind = "ddq"
    /\ server.nextSid = 1
    /\ pending' = Done(r)
    /\ UNCHANGED <<page, quizState, practiceState, dom, popup, arrays, msgs, server>>

StartQuiz ==
    /\ page = "quiz"
    /\ Reqs("ddq") = {}
    /\ dom.setup
    /\ CanSend
    /\ server.nextSid <= MaxSessions
    /\ pending' = Send([kind |-> "start", protocol |-> server.protocol,
                         sid |-> server.nextSid])
    /\ server' = [server EXCEPT !.nextSid = @ + 1]
    /\ UNCHANGED <<page, quizState, practiceState, dom, popup, arrays, msgs>>

StartQuizOk(r) ==
    /\ page = "quiz"
    /\ r.kind = "start"
    /\ LET qs == [quizState EXCEPT !.sessionId = r.sid,
                                   !.conceptGroups = StartGroups(r.protocol),
                                   !.currentIndex = 0,
                                   !.totalConcepts = Len(GroupIdsOf(r.protocol)),
                                   !.attemptNumber = 1,
                                   !.scores = NoScores]
           d == [dom EXCEPT !.setup = FALSE, !.interface = TRUE]
       IN SetWorld(DisplayCurrentQuestion([qs |-> qs, dom |-> d, popup |-> popup]))
    /\ pending' = Done(r)
    /\ arrays' = Collect(arrays, quizState', pending')
    /\ UNCHANGED <<page, practiceState, msgs, server>>

StartQuizFailed(r) ==
    /\ page = "quiz"
    /\ r.kind = "start"
    /\ pending' = Done(r)
    /\ UNCHANGED <<page, quizState, practiceState, dom, popup, arrays, msgs, server>>

QuizSelectChoice(l) ==
    /\ page = "quiz"
    /\ dom.interface
    /\ dom.area.kind = "mc"
    /\ l \notin dom.disabled
    /\ dom' = [dom EXCEPT !.checked =
                  IF dom.area.multi
                  THEN (IF l \in @ THEN @ \ {l} ELSE @ \cup {l})
                  ELSE {l}]
    /\ dom'.checked # dom.checked
    /\ UNCHANGED <<page, quizState, practiceState, popup, arrays, pending, msgs, server>>

\* The click on submit.  A submit with no checked choice, or with a number
\* of checked choices other than numCorrect on a multi-select question, is
\* answered with an alert and nothing else; QuizSubmitAnswerAnyCount is the
\* handler without the test on the number of checked choices.
QuizSubmitAnswerAnyCount ==
    /\ page = "quiz"
    /\ dom.interface
    /\ dom.submit
    /\ dom.area.kind = "mc"
    /\ HasCurrentGroup(quizState)
    /\ LET currentGroup == CurrentGroup(quizState)
           question == currentGroup.question
       IN IF Cardinality(dom.checked) = 0
          THEN UNCHANGED <<dom, pending>>
          ELSE /\ quizState.attemptNumber <= MaxAttempt
               /\ CanSend
               /\ pending' = Send(
                      [kind |-> "submit", session_id |-> quizState.sessionId,
                       question_id |-> question,
                       student_answer |-> SortedSeq(dom.checked),
                       attempt_number |-> quizState.attemptNumber,
                       group_id |-> currentGroup.group_id])
               /\ dom' = [dom EXCEPT !.disabled = Letters]
    /\ UNCHANGED <<page, quizState, practiceState, popup, arrays, msgs, server>>

QuizSubmitAnswer ==
    /\ page = "quiz"
    /\ dom.interface
    /\ dom.submit
    /\ dom.area.kind = "mc"
    /\ HasCurrentGroup(quizState)
    /\ LET currentGroup == CurrentGroup(quizState)
           question == currentGroup.question
           isMultiAnswer == QuizKind(question) = "multi"
           numCorrect == IF isMultiAnswer THEN Len(QuizCorrect(question)) ELSE 1
       IN IF \/ Cardinality(dom.checked) = 0
             \/ isMultiAnswer /\ Cardinality(dom.checked) # numCorrect
          THEN UNCHANGED <<dom, pending>>
          ELSE /\ quizState.attemptNumber <= MaxAttempt
               /\ CanSend
               /\ pending' = Send(
                      [kind |-> "submit", session_id |-> quizState.sessionId,
                       question_id |-> question,
                       student_answer |-> SortedSeq(dom.checked),
                       attempt_number |-> quizState.attemptNumber,
                       group_id |-> currentGroup.group_id])
               /\ dom' = [dom EXCEPT !.disabled = Letters]
    /\ UNCHANGED <<page, quizState, practiceState, popup, arrays, msgs, server>>

QuizSubmitOk(r, data) ==
    /\ page = "quiz"
    /\ r.kind = "submit"
    /\ data \in SubmitPayloads(r)
    /\ SetWorld(SubmitOk(World, r, data))
    /\ pending' = Done(r)
    /\ UNCHANGED <<page, practiceState, arrays, msgs, server>>

QuizSubmitFailed(r) ==
    /\ page = "quiz"
    /\ r.kind = "submit"
    /\ pending' = Done(r)
    /\ UNCHANGED <<page, quizState, practiceState, dom, popup, arrays, msgs, server>>

QuizTryAgain ==
    /\ page = "quiz"
    /\ dom.interface
    /\ dom.tryAgain
    /\ dom' = [dom EXCEPT !.disabled = {}, !.checked = {}, !.feedback = "hidden",
                          !.tryAgain = FALSE, !.submit = TRUE]
    /\ UNCHANGED <<page, quizState, practiceState, popup, arrays, pending, msgs, server>>

LoadMoreFromConcept ==
    /\ page = "quiz"
    /\ dom.interface
    /\ dom.more
    /\ HasCurrentGroup(quizState)
    /\ CanSend
    /\ LET currentGroup == CurrentGroup(quizState)
       IN pending' = Send(
                [kind |-> "more", sid |-> quizState.sessionId,
                 idx |-> quizState.currentIndex + 1,
                 group_id |-> currentGroup.group_id,
                 exclude |-> IF currentGroup.seen = 0 THEN <<>>
                             ELSE arrays[currentGroup.seen],
                 arr |-> IF currentGroup.seen = 0 THEN FreshArr
                         ELSE currentGroup.seen])
    /\ UNCHANGED <<page, quizState, practiceState, dom, popup, arrays, msgs, server>>

MoreQuestion(r, q) ==
    /\ page = "quiz"
    /\ r.kind = "more"
    /\ q \in MoreQuestions(r)
    /\ LET attached == r.sid = quizState.sessionId
           w1 == IF attached
                 THEN [World EXCEPT !.qs.conceptGroups[r.idx].question = q,
                                    !.qs.conceptGroups[r.idx].seen = r.arr]
                 ELSE World
           w2 == [w1 EXCEPT !.dom.disabled = {}]
       IN SetWorld(DisplayCurrentQuestion(w2))
    /\ pending' = Done(r)
    /\ arrays' = Collect([arrays EXCEPT ![r.arr] = Append(@, q)], quizState', pending')
    /\ UNCHANGED <<page, practiceState, msgs, server>>

\* The then-callback of loadMoreFromConcept for an error payload with
\* all_covered: nextTopic() is called.  MoreAllCoveredAsError is the
\* callback that treats the payload as any other error.
MoreAllCoveredAsError(r) ==
    /\ page = "quiz"
    /\ r.kind = "more"
    /\ pending' = Done(r)
    /\ arrays' = Collect(arrays, quizState, pending')
    /\ UNCHANGED <<page, quizState, practiceState, dom, popup, msgs, server>>

MoreAllCovered(r) ==
    /\ page = "quiz"
    /\ r.kind = "more"
    /\ SetWorld(NextTopic(World))
    /\ pending' = Done(r)
    /\ arrays' = Collect(arrays, quizState', pending')
    /\ UNCHANGED <<page, practiceState, msgs, server>>

MoreFailed(r) ==
    /\ page = "quiz"
    /\ r.kind = "more"
    /\ pending' = Done(r)
    /\ arrays' = Collect(arrays, quizState, pending')
    /\ UNCHANGED <<page, quizState, practiceState, dom, popup, msgs, server>>

NextTopicClick ==
    /\ page = "quiz"
    /\ dom.interface
    /\ dom.next
    /\ SetWorld(NextTopic(World))
    /\ UNCHANGED <<page, practiceState, arrays, pending, msgs, server>>

RestartQuiz ==
    /\ page = "quiz"
    /\ dom.summary
    /\ LET w1 == ClosePopupIfOpen(World)
       IN /\ popup' = w1.popup
          /\ quizState' = FreshQuizState(quizState.dragDropQuestions)
          /\ dom' = [dom EXCEPT !.summary = FALSE, !.setup = TRUE]
    /\ arrays' = Collect(arrays, quizState', pending)
    /\ UNCHANGED <<page, practiceState, pending, msgs, server>>

OpenDragDropPopup ==
    /\ page = "quiz"
    /\ dom.interface
    /\ dom.area.kind \in {"dragOpen", "dragWaiting", "dragRetry"}
    /\ LET questionId == dom.area.q
           w1 == ClosePopupIfOpen(World)
       IN /\ popup' = [open |-> TRUE, q |-> questionId]
          /\ quizState' = [quizState EXCEPT !.dragDropWindow = "window"]
          /\ dom' = [dom EXCEPT !.area = [kind |-> "dragWaiting", q |-> questionId,
                                          multi |-> FALSE]]
    /\ UNCHANGED <<page, practiceState, arrays, pending, msgs, server>>

\* the popup page reports the outcome of the interactive question
PopupPost(correct) ==
    /\ page = "quiz"
    /\ popup.open
    /\ Cardinality(msgs) < MaxMsgs
    /\ ~correct => quizState.attemptNumber < MaxAttempt
    /\ msgs' = msgs \cup {[type |-> "dragDropComplete", questionId |-> popup.q,
                           correct |-> correct]}
    /\ msgs' # msgs
    /\ UNCHANGED <<page, quizState, practiceState, dom, popup, arrays, pending, server>>

\* the popup closes itself or the student closes it
PopupClosed ==
    /\ page = "quiz"
    /\ popup.open
    /\ popup' = [open |-> FALSE, q |-> 0]
    /\ UNCHANGED <<page, quizState, practiceState, dom, arrays, pending, msgs, server>>

\* a window message of another type reaches the listener (its time in
\* flight is not modelled: the listener does nothing with it)
OtherMessage ==
    /\ page = "quiz"
    /\ SetWorld(HandleDragDropMessage(World,
                    [type |-> "other", questionId |-> 0, correct |-> TRUE]))
    /\ UNCHANGED <<page, practiceState, arrays, pending, msgs, server>>

DragDropMessage(m) ==
    /\ page = "quiz"
    /\ m \in msgs
    /\ SetWorld(HandleDragDropMessage(World, m))
    /\ msgs' = msgs \ {m}
    /\ UNCHANGED <<page, practiceState, arrays, pending, server>>

QuizNext ==
    \/ \E r \in Reqs("ddq") : LoadDragDropQuestionsOk(r)
    \/ \E r \in Reqs("ddq") : LoadDragDropQuestionsFailed(r)
    \/ StartQuiz
    \/ \E r \in Reqs("start") : StartQuizOk(r)
    \/ \E r \in Reqs("start") : StartQuizFailed(r)
    \/ \E l \in Letters : QuizSelectChoice(l)
    \/ QuizSubmitAnswer
    \/ \E r \in Reqs("submit") : \E data \in SubmitPayloads(r) : QuizSubmitOk(r, data)
    \/ \E r \in Reqs("submit") : QuizSubmitFailed(r)
    \/ QuizTryAgain
    \/ LoadMoreFromConcept
    \/ \E r \in Reqs("more") : \E q \in Pool(r.group_id) : MoreQuestion(r, q)
    \/ \E r \in Reqs("more") : MoreAllCovered(r)
    \/ \E r \in Reqs("more") : MoreFailed(r)
    \/ NextTopicClick
    \/ RestartQuiz
    \/ OpenDragDropPopup
    \/ \E correct \in BOOLEAN : PopupPost(correct)
    \/ PopupClosed
    \/ OtherMessage
    \/ \E m \in msgs : DragDropMessage(m)

----------------------------------------------------------------------------
(* Practice engine (linear session)                                        *)

\* the questions of the session are 1..NumQuestions; the even ones are
\* multi-select
PracticeMulti(q) == q % 2 = 0

PracticeCorrect(q) == IF PracticeMulti(q) THEN <<1, 2>> ELSE <<1>>

\* POST /practice/check-answer: exact-match grading; a wrong answer is
\* counted, the reveal is offered from the RevealThreshold-th wrong attempt
\* on, and a list of choices to disable is returned
CheckPayloads(req) ==
    IF req.selected_answer = PracticeCorrect(req.question_id)
    THEN {[correct |-> TRUE, attempt |-> 0, can_reveal |-> FALSE,
           disabled_choices |-> {}]}
    ELSE {[correct |-> FALSE,
           attempt |-> server.wrong[req.question_id] + 1,
           can_reveal |-> server.wrong[req.question_id] + 1 >= RevealThreshold,
           disabled_choices |-> D] : D \in SUBSET Letters}

\* POST /practice/skip and /practice/next: the next question, or done
AdvancePayload ==
    IF server.cur + 1 > NumQuestions
    THEN [done |-> TRUE, question |-> 0]
    ELSE [done |-> FALSE, question |-> server.cur + 1]

\* the forms in which the collaborator reports the end of the session: done,
\* or a response that carries no question
AdvancePayloads ==
    IF AdvancePayload.done
    THEN {AdvancePayload, [done |-> FALSE, question |-> 0]}
    ELSE {AdvancePayload}

PWorld == [ps |-> practiceState, dom |-> dom]

SetPWorld(w) ==
    /\ practiceState' = w.ps
    /\ dom' = w.dom

\* displayQuestion.  DisplayQuestionKeepDisabled is the function without the
\* loop that enables the choices of the new question.
DisplayQuestionKeepDisabled(w, questionData) ==
    [w EXCEPT !.ps.currentQuestion = questionData,
              !.ps.questionNumber = questionData,
              !.ps.attemptNumber = 0,
              !.ps.disabledChoices = {},
              !.ps.canReveal = FALSE,
              !.dom.area = [kind |-> "mc", q |-> questionData,
                            multi |-> PracticeMulti(questionData)],
              !.dom.checked = {},
              !.dom.feedback = "hidden",
              !.dom.loading = FALSE,
              !.dom.submit = TRUE,
              !.dom.submitDisabled = TRUE,
              !.dom.skip = TRUE,
              !.dom.tryAgain = FALSE,
              !.dom.reveal = FALSE,
              !.dom.next = FALSE]

DisplayQuestion(w, questionData) ==
    [w EXCEPT !.ps.currentQuestion = questionData,
              !.ps.questionNumber = questionData,
              !.ps.attemptNumber = 0,
              !.ps.disabledChoices = {},
              !.ps.canReveal = FALSE,
              !.dom.area = [kind |-> "mc", q |-> questionData,
                            multi |-> PracticeMulti(questionData)],
              !.dom.checked = {},
              !.dom.disabled = {},
              !.dom.feedback = "hidden",
              !.dom.loading = FALSE,
              !.dom.submit = TRUE,
              !.dom.submitDisabled = TRUE,
              !.dom.skip = TRUE,
              !.dom.tryAgain = FALSE,
              !.dom.reveal = FALSE,
              !.dom.next = FALSE]

\* window.location.href = summary url: the page is left, its fetches are
\* dropped with it
NavigateToSummary(w) ==
    [w EXCEPT !.dom = [InitDom("practice") EXCEPT !.summary = TRUE]]

ApplyDisabledChoices(d, disabledLetters) ==
    IF d.area.kind = "mc"
    THEN [d EXCEPT !.disabled = @ \cup disabledLetters,
                   !.checked = @ \ disabledLetters]
    ELSE d

\* The then-callback of submitAnswer (practice) for a payload without
\* error.  The reveal button is shown if (data.can_reveal);
\* CheckOkRevealAlways is the callback that shows it after any wrong answer.
CheckOkRevealAlways(w, data) ==
    LET w1 == [w EXCEPT !.dom.loading = FALSE]
    IN IF data.correct
       THEN [w1 EXCEPT !.ps.correctCount = @ + 1,
                       !.dom.feedback = "success",
                       !.dom.next = TRUE]
       ELSE [w1 EXCEPT !.ps.attemptNumber = data.attempt,
                       !.ps.canReveal = data.can_reveal,
                       !.ps.disabledChoices = data.disabled_choices,
                       !.dom = [ApplyDisabledChoices(w1.dom, data.disabled_choices)
                                  EXCEPT !.feedback = "warning",
                                         !.tryAgain = TRUE,
                                         !.reveal = TRUE]]

CheckOk(w, data) ==
    LET w1 == [w EXCEPT !.dom.loading = FALSE]
    IN IF data.correct
       THEN [w1 EXCEPT !.ps.correctCount = @ + 1,
                       !.dom.feedback = "success",
                       !.dom.next = TRUE]
       ELSE [w1 EXCEPT !.ps.attemptNumber = data.attempt,
                       !.ps.canReveal = data.can_reveal,
                       !.ps.disabledChoices = data.disabled_choices,
                       !.dom = [ApplyDisabledChoices(w1.dom, data.disabled_choices)
                                  EXCEPT !.feedback = "warning",
                                         !.tryAgain = TRUE,
                                         !.reveal = IF data.can_reveal THEN TRUE ELSE @]]

PracticeStartOk(r) ==
    /\ page = "practice"
    /\ r.kind = "pstart"
    /\ SetPWorld(DisplayQuestion(PWorld, 1))
    /\ server' = [server EXCEPT !.cur = 1]
    /\ pending' = Done(r)
    /\ UNCHANGED <<page, quizState, popup, arrays, msgs>>

PracticeStartFailed(r) ==
    /\ page = "practice"
    /\ r.kind = "pstart"
    /\ pending' = Done(r)
    /\ UNCHANGED <<page, quizState, practiceState, dom, popup, arrays, msgs, server>>

PracticeSelectChoice(l) ==
    /\ page = "practice"
    /\ dom.area.kind = "mc"
    /\ l \notin dom.disabled
    /\ dom' = [dom EXCEPT !.checked =
                              IF dom.area.multi
                              THEN (IF l \in @ THEN @ \ {l} ELSE @ \cup {l})
                              ELSE {l},
                          !.submitDisabled = FALSE]
    /\ dom'.checked # dom.checked
    /\ UNCHANGED <<page, quizState, practiceState, popup, arrays, pending, msgs, server>>

\* The click on submit.  With no checked choice selected is null or ''
\* and the handler returns; PracticeSubmitAnswerNoTest is the handler
\* without if (!selected) return.
PracticeSubmitAnswerNoTest ==
    /\ page = "practice"
    /\ dom.submit
    /\ ~dom.submitDisabled
    /\ practiceState.attemptNumber <= MaxAttempt
    /\ CanSend
    /\ dom' = [dom EXCEPT !.loading = TRUE, !.submit = FALSE, !.skip = FALSE,
                          !.tryAgain = FALSE, !.reveal = FALSE,
                          !.disabled = IF dom.area.kind = "mc" THEN Letters ELSE @]
    /\ pending' = Send([kind |-> "check",
                        question_id |-> practiceState.currentQuestion,
                        selected_answer |-> SortedSeq(dom.checked)])
    /\ UNCHANGED <<page, quizState, practiceState, popup, arrays, msgs, server>>

PracticeSubmitAnswer ==
    /\ page = "practice"
    /\ dom.submit
    /\ ~dom.submitDisabled
    /\ IF dom.checked = {}
       THEN UNCHANGED <<dom, pending>>
       ELSE /\ practiceState.attemptNumber <= MaxAttempt
            /\ CanSend
            /\ dom' = [dom EXCEPT !.loading = TRUE, !.submit = FALSE,
                                  !.skip = FALSE,
                                  !.tryAgain = FALSE, !.reveal = FALSE,
                                  !.disabled = IF dom.area.kind = "mc"
                                               THEN Letters ELSE @]
            /\ pending' = Send([kind |-> "check",
                                question_id |-> practiceState.currentQuestion,
                                selected_answer |-> SortedSeq(dom.checked)])
    /\ UNCHANGED <<page, quizState, practiceState, popup, arrays, msgs, server>>

PracticeCheckOk(r, data) ==
    /\ page = "practice"
    /\ r.kind = "check"
    /\ data \in CheckPayloads(r)
    /\ SetPWorld(CheckOk(PWorld, data))
    /\ server' = IF data.correct
                 THEN [server EXCEPT !.correct = @ \cup {r.question_id}]
                 ELSE [server EXCEPT !.wrong[r.question_id] = data.attempt]
    /\ pending' = Done(r)
    /\ UNCHANGED <<page, quizState, popup, arrays, msgs>>

\* an error payload, or the catch callback.  PracticeCheckFailedNoSkip is
\* the handler that shows the error and leaves the skip button hidden.
PracticeCheckFailedNoSkip(r) ==
    /\ page = "practice"
    /\ r.kind = "check"
    /\ dom' = [dom EXCEPT !.loading = FALSE, !.feedback = "danger"]
    /\ pending' = Done(r)
    /\ UNCHANGED <<page, quizState, practiceState, popup, arrays, msgs, server>>

PracticeCheckFailed(r) ==
    /\ page = "practice"
    /\ r.kind = "check"
    /\ dom' = [dom EXCEPT !.loading = FALSE, !.feedback = "danger", !.skip = TRUE]
    /\ pending' = Done(r)
    /\ UNCHANGED <<page, quizState, practiceState, popup, arrays, msgs, server>>

\* tryAgain (practice).  PracticeTryAgainEnableAll is the handler that
\* enables every input, the disabled choices included.
PracticeTryAgainEnableAll ==
    /\ page = "practice"
    /\ dom.tryAgain
    /\ dom' = [dom EXCEPT !.feedback = "hidden", !.tryAgain = FALSE, !.reveal = FALSE,
                          !.submit = TRUE, !.submitDisabled = TRUE, !.skip = TRUE,
                          !.disabled = {},
                          !.checked = {}]
    /\ UNCHANGED <<page, quizState, practiceState, popup, arrays, pending, msgs, server>>

PracticeTryAgain ==
    /\ page = "practice"
    /\ dom.tryAgain
    /\ dom' = [dom EXCEPT !.feedback = "hidden", !.tryAgain = FALSE, !.reveal = FALSE,
                          !.submit = TRUE, !.submitDisabled = TRUE, !.skip = TRUE,
                          !.disabled = @ \cap practiceState.disabledChoices,
                          !.checked = {}]
    /\ UNCHANGED <<page, quizState, practiceState, popup, arrays, pending, msgs, server>>

RevealAnswer ==
    /\ page = "practice"
    /\ dom.reveal
    /\ CanSend
    /\ dom' = [dom EXCEPT !.loading = TRUE, !.tryAgain = FALSE, !.reveal = FALSE]
    /\ pending' = Send([kind |-> "explain",
                        question_id |-> practiceState.currentQuestion])
    /\ UNCHANGED <<page, quizState, practiceState, popup, arrays, msgs, server>>

RevealOk(r) ==
    /\ page = "practice"
    /\ r.kind = "explain"
    /\ practiceState' = [practiceState EXCEPT !.incorrectCount = @ + 1]
    /\ dom' = [dom EXCEPT !.loading = FALSE, !.feedback = "info", !.next = TRUE]
    /\ server' = [server EXCEPT !.revealed = @ \cup {r.question_id}]
    /\ pending' = Done(r)
    /\ UNCHANGED <<page, quizState, popup, arrays, msgs>>

RevealFailed(r) ==
    /\ page = "practice"
    /\ r.kind = "explain"
    /\ dom' = [dom EXCEPT !.loading = FALSE, !.feedback = "danger"]
    /\ pending' = Done(r)
    /\ UNCHANGED <<page, quizState, practiceState, popup, arrays, msgs, server>>

SkipQuestion ==
    /\ page = "practice"
    /\ dom.skip
    /\ practiceState.currentQuestion # 0
    /\ CanSend
    /\ pending' = Send([kind |-> "skip",
                        question_id |-> practiceState.currentQuestion])
    /\ UNCHANGED <<page, quizState, practiceState, dom, popup, arrays, msgs, server>>

\* the then-callback of skipQuestion and of nextQuestion after the error
\* test.  AdvanceOnDoneOnly is the callback that tests data.done alone.
AdvanceOnDoneOnly(w, data, skipped) ==
    LET w1 == IF skipped THEN [w EXCEPT !.ps.skippedCount = @ + 1] ELSE w
    IN IF data.done
       THEN NavigateToSummary(w1)
       ELSE DisplayQuestion(w1, data.question)

Advance(w, data, skipped) ==
    LET w1 == IF skipped THEN [w EXCEPT !.ps.skippedCount = @ + 1] ELSE w
    IN IF data.done \/ data.question = 0
       THEN NavigateToSummary(w1)
       ELSE DisplayQuestion(w1, data.question)

SkipOk(r) ==
    /\ page = "practice"
    /\ r.kind = "skip"
    /\ \E data \in AdvancePayloads : SetPWorld(Advance(PWorld, data, TRUE))
    /\ server' = [server EXCEPT !.cur = @ + 1,
                                !.skipped = @ \cup {r.question_id}]
    /\ pending' = IF dom'.summary THEN EmptyBag ELSE Done(r)
    /\ UNCHANGED <<page, quizState, popup, arrays, msgs>>

\* SkipFailedCounted is the callback that counts the skip before it tests
\* data.error.
SkipFailedCounted(r) ==
    /\ page = "practice"
    /\ r.kind = "skip"
    /\ practiceState' = [practiceState EXCEPT !.skippedCount = @ + 1]
    /\ dom' = [dom EXCEPT !.feedback = "danger"]
    /\ pending' = Done(r)
    /\ UNCHANGED <<page, quizState, popup, arrays, msgs, server>>

SkipFailed(r) ==
    /\ page = "practice"
    /\ r.kind = "skip"
    /\ dom' = [dom EXCEPT !.feedback = "danger"]
    /\ pending' = Done(r)
    /\ UNCHANGED <<page, quizState, practiceState, popup, arrays, msgs, server>>

NextQuestion ==
    /\ page = "practice"
    /\ dom.next
    /\ CanSend
    /\ pending' = Send([kind |-> "next"])
    /\ UNCHANGED <<page, quizState, practiceState, dom, popup, arrays, msgs, server>>

NextOk(r) ==
    /\ page = "practice"
    /\ r.kind = "next"
    /\ \E data \in AdvancePayloads : SetPWorld(Advance(PWorld, data, FALSE))
    /\ server' = [server EXCEPT !.cur = @ + 1]
    /\ pending' = IF dom'.summary THEN EmptyBag ELSE Done(r)
    /\ UNCHANGED <<page, quizState, popup, arrays, msgs>>

NextFailed(r) ==
    /\ page = "practice"
    /\ r.kind = "next"
    /\ dom' = [dom EXCEPT !.feedback = "danger"]
    /\ pending' = Done(r)
    /\ UNCHANGED <<page, quizState, practiceState, popup, arrays, msgs, server>>

PracticeNext ==
    \/ \E r \in Reqs("pstart") : PracticeStartOk(r)
    \/ \E r \in Reqs("pstart") : PracticeStartFailed(r)
    \/ \E l \in Letters : PracticeSelectChoice(l)
    \/ PracticeSubmitAnswer
    \/ \E r \in Reqs("check") : \E data \in CheckPayloads(r) : PracticeCheckOk(r, data)
    \/ \E r \in Reqs("check") : PracticeCheckFailed(r)
    \/ PracticeTryAgain
    \/ RevealAnswer
    \/ \E r \in Reqs("explain") : RevealOk(r)
    \/ \E r \in Reqs("explain") : RevealFailed(r)
    \/ SkipQuestion
    \/ \E r \in Reqs("skip") : SkipOk(r)
    \/ \E r \in Reqs("skip") : SkipFailed(r)
    \/ NextQuestion
    \/ \E r \in Reqs("next") : NextOk(r)
    \/ \E r \in Reqs("next") : NextFailed(r)

Next == QuizNext \/ PracticeNext

Spec == Init /\ [][Next]_vars

----------------------------------------------------------------------------
(* Properties of the concept-group session: interactive questions and the  *)
(* recorded outcomes                                                       *)

\* the message refers to a question of a group the cursor has moved past
StaleMessage(m) ==
    \E i \in 1..Len(quizState.conceptGroups) :
        /\ quizState.conceptGroups[i].group_id = GroupOf(m.questionId)
        /\ i < quizState.currentIndex + 1

\* C1: a completion message of the interactive question that reports
\* success for a question of a group that is no longer the current group is
\* ignored: handling it leaves the engine state, the page and the popup as
\* they were.
StaleCompletionIgnored ==
    [][\A m \in msgs :
          (m.correct /\ StaleMessage(m) /\ DragDropMessage(m))
              => UNCHANGED <<quizState, dom, popup>>]_vars

\* C2: handling an answer-check response never changes an outcome that is
\* already recorded, the group's outcome included when the answered question
\* was obtained through "more on this concept".
RecordedOutcomeKept ==
    [][\A r \in Reqs("submit") : \A data \in SubmitPayloads(r) :
          QuizSubmitOk(r, data)
              => \A g \in DOMAIN quizState.scores :
                     /\ g \in DOMAIN quizState'.scores
                     /\ quizState'.scores[g] = quizState.scores[g]]_vars

\* C2, the case: a question obtained through "more on this concept" has
\* been answered correctly at an attempt number that differs from the
\* attempts of the outcome recorded for its group.
MoreAnsweredAfterOutcome ==
    /\ page = "quiz"
    /\ HasCurrentGroup(quizState)
    /\ CurrentGroup(quizState).seen # 0
    /\ dom.area.kind = "mc"
    /\ dom.area.q = CurrentGroup(quizState).question
    /\ dom.feedback = "success"
    /\ CurrentGroup(quizState).group_id \in DOMAIN quizState.scores
    /\ quizState.scores[CurrentGroup(quizState).group_id].attempts
           # quizState.attemptNumber

\* C3: handling a completion message that reports success for the current
\* group's question records the outcome (first attempt correct iff the
\* attempt number is 1, and the attempt count) only if the group has no
\* outcome yet; an existing outcome is left unchanged.
InteractiveOutcomeOnlyIfAbsent ==
    [][\A m \in msgs :
          (/\ m.correct
           /\ HasCurrentGroup(quizState)
           /\ m.questionId = CurrentGroup(quizState).question
           /\ DragDropMessage(m))
              => LET currentGroup == CurrentGroup(quizState)
                     g == currentGroup.group_id
                 IN quizState'.scores =
                        IF g \in DOMAIN quizState.scores THEN quizState.scores
                        ELSE (g :> Outcome(quizState.attemptNumber, currentGroup))
                                 @@ quizState.scores]_vars
----------------------------------------------------------------------------
(* Properties of both sessions: requests in flight and available actions   *)

\* C4: an answer-check response is never handled while a question other
\* than the one it answers is the current question: the response for
\* question N is handled before question N+1 is displayed.
AnswerHandledBeforeNextQuestion ==
    [][/\ \A r \in Reqs("check") :
              (PracticeCheckFailed(r)
                   \/ \E data \in CheckPayloads(r) : PracticeCheckOk(r, data))
                  => r.question_id = practiceState.currentQuestion
       /\ \A r \in Reqs("submit") :
              (QuizSubmitFailed(r)
                   \/ \E data \in SubmitPayloads(r) : QuizSubmitOk(r, data))
                  => (HasCurrentGroup(quizState)
                          => r.question_id = CurrentGroup(quizState).question)]_vars

\* the requests a session sends: answer check, reveal, skip, next question,
\* more from the group
SessionKinds == {"check", "explain", "skip", "next", "submit", "more"}

InFlight ==
    LET rs == {r \in BagToSet(pending) : r.kind \in SessionKinds}
    IN BagCardinality([r \in rs |-> CopiesIn(r, pending)])

\* C5: in both sessions at most one request of the session is in flight at
\* any time (a control clicked twice sends one request).
AtMostOneRequestInFlight == InFlight <= 1

\* an action of the linear session that retries or moves on can be taken
PracticeActionAvailable ==
    \/ dom.submit /\ \/ ~dom.submitDisabled /\ dom.checked # {}
                     \/ Letters \ dom.disabled # {}
    \/ dom.tryAgain
    \/ dom.reveal
    \/ dom.skip
    \/ dom.next

\* an action of the concept-group session that retries or moves on can be
\* taken
QuizActionAvailable ==
    \/ /\ dom.submit
       /\ dom.area.kind = "mc"
       /\ dom.checked # {} \/ Letters \ dom.disabled # {}
    \/ dom.tryAgain
    \/ dom.more
    \/ dom.next
    \/ dom.area.kind \in {"dragOpen", "dragWaiting", "dragRetry"}

\* C6: outside the Summary phase, a session that has displayed a question
\* and has no request in flight offers at least one action that retries or
\* moves on.
NoStall ==
    /\ (/\ page = "practice"
        /\ practiceState.currentQuestion # 0
        /\ ~dom.summary
        /\ InFlight = 0) => PracticeActionAvailable
    /\ (/\ page = "quiz"
        /\ dom.interface
        /\ InFlight = 0) => QuizActionAvailable
----------------------------------------------------------------------------
(* Properties of the linear session: disabled choices and the reveal       *)

\* C7: while the same question is current, the set of disabled choices
\* only grows, whatever list a later wrong response carries, and a choice in
\* it that is disabled on the page stays disabled.
DisabledChoiceStaysDisabled ==
    [][(/\ page = "practice"
        /\ practiceState'.currentQuestion = practiceState.currentQuestion
        /\ ~dom'.summary)
           => /\ practiceState.disabledChoices \subseteq practiceState'.disabledChoices
              /\ (practiceState.disabledChoices \cap dom.disabled)
                     \subseteq dom'.disabled]_vars

\* the wrong answer-check responses received for the current question
WrongResponses == server.wrong[practiceState.currentQuestion]

\* C8 as stated: in every state of a question not yet resolved (no request
\* in flight), the reveal is available iff the wrong answer-check responses
\* for the current question are RevealThreshold or more; the state after
\* try again is such a state.
RevealIffThresholdReached ==
    (/\ page = "practice"
     /\ practiceState.currentQuestion # 0
     /\ ~dom.summary
     /\ ~dom.next
     /\ InFlight = 0)
        => (dom.reveal <=> WrongResponses >= RevealThreshold)

\* C8: the reveal becomes available when, and only when, a wrong
\* answer-check response is handled that brings the wrong responses for its
\* question to RevealThreshold or more; try again hides it, so after try
\* again it is not available whatever the count.
RevealOfferedByWrongResponse ==
    [][page = "practice" =>
          /\ \A r \in Reqs("check") : \A data \in CheckPayloads(r) :
                 (/\ PracticeCheckOk(r, data)
                  /\ ~data.correct
                  /\ server'.wrong[r.question_id] >= RevealThreshold)
                     => dom'.reveal
          /\ (~dom.reveal /\ dom'.reveal)
                 => \E r \in Reqs("check") : \E data \in CheckPayloads(r) :
                        /\ PracticeCheckOk(r, data)
                        /\ ~data.correct
                        /\ server'.wrong[r.question_id] >= RevealThreshold
          /\ PracticeTryAgain => ~dom'.reveal]_vars

\* C8, the case: the wrong response that reaches the threshold for the
\* current question has been handled and the reveal is offered with try
\* again.
RevealOffered ==
    /\ page = "practice"
    /\ practiceState.currentQuestion # 0
    /\ dom.feedback = "warning"
    /\ dom.tryAgain
    /\ dom.reveal
    /\ practiceState.canReveal
    /\ WrongResponses >= RevealThreshold

----------------------------------------------------------------------------
(* Properties of the concept-group session: more from the group            *)

\* C9: a more-from-group request carries in its exclusion list the
\* questions of the group already displayed: its representative, the
\* question it currently shows and the questions seen so far.
MoreExcludesDisplayed ==
    [][LoadMoreFromConcept =>
          LET currentGroup == CurrentGroup(quizState)
              displayed == {Representative(currentGroup.group_id),
                            currentGroup.question}
                               \cup (IF currentGroup.seen = 0 THEN {}
                                     ELSE SeqElems(arrays[currentGroup.seen]))
          IN \A r \in BagToSet(pending') :
                 (r.kind = "more" /\ CopiesIn(r, pending') > CopiesIn(r, pending))
                     => displayed \subseteq SeqElems(r.exclude)]_vars

\* C10: when the response to a more-from-group request reports that the
\* group is exhausted, the cursor advances by one group, the Summary is
\* entered if that was the last group and the next group's question is
\* displayed otherwise; the recorded outcomes and the groups stay as they
\* were.
ExhaustionAdvances ==
    [][\A r \in Reqs("more") :
          MoreAllCovered(r)
              => /\ quizState'.currentIndex = quizState.currentIndex + 1
                 /\ quizState'.scores = quizState.scores
                 /\ quizState'.conceptGroups = quizState.conceptGroups
                 /\ IF quizState'.currentIndex >= Len(quizState.conceptGroups)
                    THEN dom'.summary /\ ~dom'.interface
                    ELSE /\ dom'.area.q = CurrentGroup(quizState').question
                         /\ dom'.feedback = "hidden"]_vars

\* C10, the case: the cursor is beyond the last group, where only the
\* handling of an exhausted group can move it (Next Topic is not offered in
\* the Summary), and the outcome of the last group is recorded.
ExhaustionPastLastGroup ==
    /\ page = "quiz"
    /\ Len(quizState.conceptGroups) > 0
    /\ quizState.currentIndex > Len(quizState.conceptGroups)
    /\ dom.summary
    /\ quizState.conceptGroups[Len(quizState.conceptGroups)].group_id
           \in DOMAIN quizState.scores
----------------------------------------------------------------------------
(* Properties of the concept-group session: attempts and submission        *)

\* C11: every step that displays a question of the concept-group session
\* (the start response, an advance to the next group, a question loaded by
\* "more on this concept", an interactive question) leaves the attempt
\* number at 1.
AttemptOneOnDisplay ==
    [][(\/ \E r \in Reqs("start") : StartQuizOk(r)
        \/ NextTopicClick
        \/ \E r \in Reqs("more") : MoreAllCovered(r)
        \/ \E r \in Reqs("more") : \E q \in Pool(r.group_id) : MoreQuestion(r, q))
           => (HasCurrentGroup(quizState') => quizState'.attemptNumber = 1)]_vars
----------------------------------------------------------------------------
(* Properties of the linear session: submission                            *)

\* C13: every answer-check request of the linear session for a
\* multi-select question carries as many letters as the question's correct
\* answer has (a submit with another number of checked choices sends
\* nothing).
LinearMultiSelectCountChecked ==
    \A r \in Reqs("check") :
        PracticeMulti(r.question_id)
            => Len(r.selected_answer) = Len(PracticeCorrect(r.question_id))
----------------------------------------------------------------------------
(* Properties of both sessions: the answer value                           *)

\* the answer value of an answer-check request
AnswerOf(r) == IF r.kind = "check" THEN r.selected_answer ELSE r.student_answer

\* C14: the answer value a submit sends is the checked letters in ascending
\* order, each once: it depends on the set of checked letters only.
AnswerCanonical ==
    [][(QuizSubmitAnswer \/ PracticeSubmitAnswer) =>
          \A r \in BagToSet(pending') :
              CopiesIn(r, pending') > CopiesIn(r, pending)
                  => LET a == AnswerOf(r)
                     IN /\ SeqElems(a) = dom.checked
                        /\ \A i \in 1..(Len(a) - 1) : a[i] < a[i + 1]]_vars

\* C14, the case: an answer of several letters to a multi-select question
\* is in flight.
SeveralLettersInFlight ==
    \E r \in Reqs("check") \cup Reqs("submit") :
        /\ Len(AnswerOf(r)) > 1
        /\ dom.area.multi
        /\ SeqElems(AnswerOf(r)) = dom.checked
\* C15: in the concept-group session, when the student chooses to try
\* again after an incorrect response, the choices of the wrong answer
\* submitted (the inputs still checked under the feedback) are disabled.
WrongChoicesDisabledOnRetry ==
    [][(QuizTryAgain /\ dom.feedback = "danger")
           => dom.checked \subseteq dom'.disabled]_vars
\* C16: within a session (between the start response that opens it and the
\* restart) every change of the cursor is an increase by exactly one.
CursorMonotonic ==
    [][\/ RestartQuiz
       \/ \E r \in Reqs("start") : StartQuizOk(r)
       \/ quizState'.currentIndex
              \in {quizState.currentIndex, quizState.currentIndex + 1}]_vars

\* C16, the case: the session has advanced and a later group is current.
LaterGroupCurrent ==
    /\ page = "quiz"
    /\ quizState.sessionId # 0
    /\ quizState.currentIndex >= 1
    /\ HasCurrentGroup(quizState)
    /\ dom.area.q = CurrentGroup(quizState).question

----------------------------------------------------------------------------
(* Properties of the linear session: the counters                          *)

\* C17: when the linear session reaches the Summary, correctCount is the
\* number of questions answered correctly, incorrectCount the number of
\* questions resolved by a reveal, skippedCount the number of questions
\* skipped, and the number of questions answered (correctly or by reveal) is
\* correctCount + incorrectCount.
CountersMatchResolutions ==
    (page = "practice" /\ dom.summary)
        => /\ practiceState.correctCount = Cardinality(server.correct)
           /\ practiceState.incorrectCount = Cardinality(server.revealed)
           /\ practiceState.skippedCount = Cardinality(server.skipped)
           /\ Cardinality(server.correct \cup server.revealed)
                  = practiceState.correctCount + practiceState.incorrectCount

----------------------------------------------------------------------------
(* Properties of the concept-group session: a question answered wrong      *)

\* C18: in the concept-group session, once the question of the current
\* group has been answered wrong RevealThreshold times the student resolves
\* it by a reveal: in the feedback state of that wrong answer the reveal
\* action is available (after it the group has an outcome, first attempt
\* not correct, and "more on this concept" can be requested).
RevealAfterWrongAnswersInGroup ==
    (/\ page = "quiz"
     /\ dom.interface
     /\ HasCurrentGroup(quizState)
     /\ dom.area.kind = "mc"
     /\ dom.area.q = CurrentGroup(quizState).question
     /\ dom.feedback = "danger"
     /\ quizState.attemptNumber > RevealThreshold)
        => dom.reveal

----------------------------------------------------------------------------
(* Properties of both sessions: failed requests                            *)

\* C19: sending an answer check, a reveal, a skip, a next or a
\* more-from-group request, and handling its failure (a transport error or
\* an error payload other than the exhaustion of the group), leave the
\* session state as it was: the current question or group, the cursor, the
\* counters, the attempt number, the disabled choices, the reveal
\* eligibility and the outcomes.
FailureKeepsSessionState ==
    [][(\/ PracticeSubmitAnswer \/ RevealAnswer \/ SkipQuestion \/ NextQuestion
        \/ (QuizSubmitAnswer /\ pending' # pending)
        \/ LoadMoreFromConcept
        \/ \E r \in Reqs("check") : PracticeCheckFailed(r)
        \/ \E r \in Reqs("explain") : RevealFailed(r)
        \/ \E r \in Reqs("skip") : SkipFailed(r)
        \/ \E r \in Reqs("next") : NextFailed(r)
        \/ \E r \in Reqs("submit") : QuizSubmitFailed(r)
        \/ \E r \in Reqs("more") : MoreFailed(r))
           => UNCHANGED <<practiceState, quizState>>]_vars

\* C19, the case: a request of the linear session has failed on a question
\* that has an attempt number and disabled choices to keep.
FailedWithAttemptState ==
    /\ page = "practice"
    /\ dom.feedback = "danger"
    /\ practiceState.attemptNumber >= 1
    /\ practiceState.disabledChoices # {}

\* C20: in the linear session the failure of an answer check (a transport
\* error or an error payload) leaves the skip action available for the
\* current question, and a skip that is answered moves the session to the
\* next question or to the Summary.
SkipAfterCheckFailure ==
    [][/\ \A r \in Reqs("check") :
              PracticeCheckFailed(r)
                  => /\ dom'.skip
                     /\ practiceState'.currentQuestion = practiceState.currentQuestion
                     /\ practiceState'.currentQuestion # 0
       /\ \A r \in Reqs("skip") :
              SkipOk(r)
                  => \/ dom'.summary
                     \/ /\ practiceState'.currentQuestion
                               = practiceState.currentQuestion + 1
                        /\ dom'.area.q = practiceState'.currentQuestion
                        /\ dom'.submit]_vars

\* C20, the case: an answer check has failed (the submit had hidden the
\* submit and skip buttons) and the skip button is shown again.
SkipShownAfterCheckFailure ==
    /\ page = "practice"
    /\ dom.feedback = "danger"
    /\ ~dom.submit
    /\ dom.skip
    /\ practiceState.currentQuestion # 0
    /\ Reqs("skip") = {}

----------------------------------------------------------------------------
(* Properties of the concept-group session: the popup                      *)

\* C21: a popup that is open shows the interactive question of the current
\* group: advancing to the next group, entering the Summary and restarting
\* close the popup, so no popup of an earlier group stays open.
OpenPopupIsOfCurrentGroup ==
    popup.open
        => /\ page = "quiz"
           /\ dom.interface
           /\ HasCurrentGroup(quizState)
           /\ GroupOf(popup.q) = CurrentGroup(quizState).group_id


\* C22: handling a completion message without success for the current
\* interactive question increases the attempt number by exactly one, records
\* no outcome and leaves the retry (reopen) and the skip to the next topic
\* available; opening or reopening the popup leaves the attempt number as it
\* is.
FailedCompletionCounted ==
    [][/\ \A m \in msgs :
              (/\ ~m.correct
               /\ HasCurrentGroup(quizState)
               /\ m.questionId = CurrentGroup(quizState).question
               /\ DragDropMessage(m))
                  => /\ quizState'.attemptNumber = quizState.attemptNumber + 1
                     /\ quizState'.scores = quizState.scores
                     /\ dom'.area.kind = "dragRetry"
                     /\ dom'.area.q = m.questionId
                     /\ dom'.interface
                     /\ dom'.next
       /\ OpenDragDropPopup
              => quizState'.attemptNumber = quizState.attemptNumber]_vars

\* C22, the case: the interactive question of the first group was closed
\* without success and its popup has been reopened with the attempt number
\* counted.
ReopenedAfterFailedCompletion ==
    /\ page = "quiz"
    /\ quizState.currentIndex = 0
    /\ HasCurrentGroup(quizState)
    /\ QuizKind(CurrentGroup(quizState).question) = "drag_drop"
    /\ dom.area.kind = "dragWaiting"
    /\ dom.area.q = CurrentGroup(quizState).question
    /\ popup.open
    /\ quizState.attemptNumber >= 2

----------------------------------------------------------------------------
(* Properties of the concept-group session: restart                        *)

\* C23: the restart sets the cursor to 0, the outcomes to empty and the
\* attempt number to 1, clears the session id, the list of groups and the
\* reference to the popup, and leaves the catalogue of interactive questions
\* that was fetched as it is.
RestartResetsSession ==
    [][RestartQuiz
           => /\ quizState'.currentIndex = 0
              /\ quizState'.scores = NoScores
              /\ quizState'.attemptNumber = 1
              /\ quizState'.sessionId = 0
              /\ quizState'.conceptGroups = <<>>
              /\ quizState'.totalConcepts = 0
              /\ quizState'.dragDropWindow = "null"
              /\ quizState'.dragDropQuestions = quizState.dragDropQuestions]_vars

\* C23, the case: a session with a fetched catalogue was restarted while a
\* message of its popup was still on its way.
RestartedWithCatalogue ==
    /\ page = "quiz"
    /\ dom.setup
    /\ quizState.sessionId = 0
    /\ quizState.dragDropQuestions = "loaded"
    /\ msgs # {}

----------------------------------------------------------------------------
(* Properties of the linear session: the states of a question              *)

\* C24: when the response to a skip or to a next reports done or carries no
\* question the linear session enters the Summary, and no question is
\* displayed after that; otherwise the question the response carries becomes
\* the current question and is displayed.
LastQuestionLeadsToSummary ==
    [][/\ \A r \in Reqs("skip") \cup Reqs("next") :
              (SkipOk(r) \/ NextOk(r))
                  => IF AdvancePayload.done
                     THEN dom'.summary /\ dom'.area = NoArea
                     ELSE /\ ~dom'.summary
                          /\ practiceState'.currentQuestion = AdvancePayload.question
                          /\ dom'.area.q = AdvancePayload.question
       /\ (page = "practice" /\ dom.summary)
              => dom'.summary /\ dom'.area = NoArea]_vars

\* C24, the case: the session is in the Summary after a question was skipped
\* and a question was answered correctly.
SummaryAfterSkipAndNext ==
    /\ page = "practice"
    /\ dom.summary
    /\ practiceState.skippedCount >= 1
    /\ practiceState.correctCount >= 1

\* the only action available on the page is next: submit, skip, try again
\* and reveal are not shown
OnlyNextAvailable(d) ==
    /\ d.next
    /\ ~d.submit
    /\ ~d.skip
    /\ ~d.tryAgain
    /\ ~d.reveal

\* C25: a reveal that succeeds increases incorrectCount by exactly one and
\* leaves correctCount as it is; incorrectCount changes at no other event;
\* after the reveal, while its feedback is shown, next is the only action
\* available.
RevealCountsAsIncorrect ==
    [][/\ \A r \in Reqs("explain") :
              RevealOk(r)
                  => /\ practiceState'.incorrectCount
                            = practiceState.incorrectCount + 1
                     /\ practiceState'.correctCount = practiceState.correctCount
                     /\ OnlyNextAvailable(dom')
       /\ practiceState'.incorrectCount # practiceState.incorrectCount
              => \E r \in Reqs("explain") : RevealOk(r)
       /\ (page = "practice" /\ dom'.feedback = "info")
              => OnlyNextAvailable(dom')]_vars


\* C26: whenever a question is displayed in the linear session (by the
\* start response, a skip response or a next response) all its choices are
\* enabled and unchecked, no feedback is shown, submit is shown and disabled,
\* the disabled choices are empty, the reveal is not available and try again
\* and next are not shown; submit stays disabled until a choice is selected.
QuestionDisplayedFresh ==
    [][/\ ((\/ \E r \in Reqs("pstart") : PracticeStartOk(r)
            \/ \E r \in Reqs("skip") : SkipOk(r)
            \/ \E r \in Reqs("next") : NextOk(r)) /\ ~dom'.summary)
              => /\ dom'.area.kind = "mc"
                 /\ dom'.area.q = practiceState'.currentQuestion
                 /\ dom'.disabled = {}
                 /\ dom'.checked = {}
                 /\ dom'.feedback = "hidden"
                 /\ dom'.submit
                 /\ dom'.submitDisabled
                 /\ practiceState'.disabledChoices = {}
                 /\ ~practiceState'.canReveal
                 /\ ~dom'.reveal
                 /\ ~dom'.tryAgain
                 /\ ~dom'.next
       /\ (page = "practice" /\ dom.submitDisabled /\ ~dom'.submitDisabled
              /\ ~dom'.summary)
              => \E l \in Letters : PracticeSelectChoice(l)]_vars

\* C26, the case: question 2 is displayed after question 1 was answered
\* correctly (which left every choice disabled and next shown).
SecondQuestionDisplayed ==
    /\ page = "practice"
    /\ practiceState.currentQuestion = 2
    /\ practiceState.correctCount >= 1
    /\ dom.area.q = 2
    /\ dom.submit
    /\ dom.submitDisabled
    /\ dom.disabled = {}
    /\ pending = EmptyBag


\* C27: in the linear session, while an answer-check request is in flight
\* (from the click on submit until its response or failure is handled) every
\* answer input is disabled and submit, skip, try again and reveal are not
\* available.
LockedWhileChecking ==
    (page = "practice" /\ Reqs("check") # {})
        => /\ dom.disabled = Letters
           /\ ~dom.submit
           /\ ~dom.skip
           /\ ~dom.tryAgain
           /\ ~dom.reveal


\* C28: handling a correct answer increases correctCount by exactly one, and
\* from then on, while its feedback is shown (until a new question is
\* displayed), next is the only action available and every answer input is
\* disabled.
CorrectAnswerIsTerminal ==
    [][/\ \A r \in Reqs("check") : \A data \in CheckPayloads(r) :
              (data.correct /\ PracticeCheckOk(r, data))
                  => /\ practiceState'.correctCount = practiceState.correctCount + 1
                     /\ OnlyNextAvailable(dom')
                     /\ dom'.disabled = Letters
       /\ (page = "practice" /\ dom'.feedback = "success")
              => OnlyNextAvailable(dom') /\ dom'.disabled = Letters]_vars


\* C29: try again in the linear session leaves exactly the choices of the
\* disabled set disabled and every other choice enabled, unchecks every
\* choice, hides the feedback, shows submit disabled, and leaves the
\* counters, the disabled set and the current question as they are.
TryAgainReturnsToPresented ==
    [][PracticeTryAgain
           => /\ dom'.disabled = practiceState.disabledChoices
              /\ dom'.checked = {}
              /\ dom'.feedback = "hidden"
              /\ dom'.submit
              /\ dom'.submitDisabled
              /\ ~dom'.tryAgain
              /\ practiceState'.correctCount = practiceState.correctCount
              /\ practiceState'.incorrectCount = practiceState.incorrectCount
              /\ practiceState'.skippedCount = practiceState.skippedCount
              /\ practiceState'.disabledChoices = practiceState.disabledChoices
              /\ practiceState'.currentQuestion = practiceState.currentQuestion
              /\ dom'.area = dom.area]_vars

\* C29, the case: after a wrong answer that disabled some of the choices and
\* not all, the student has chosen to try again.
RetryWithDisabledChoice ==
    /\ page = "practice"
    /\ practiceState.attemptNumber >= 1
    /\ practiceState.disabledChoices # {}
    /\ practiceState.disabledChoices # Letters
    /\ dom.disabled = practiceState.disabledChoices
    /\ dom.feedback = "hidden"
    /\ dom.submit
    /\ dom.submitDisabled

----------------------------------------------------------------------------
(* Properties of the concept-group session: after a correct answer         *)

\* C30: when a correct answer-check response is handled in the
\* concept-group session the next-topic action is offered, and the "more on
\* this concept" action is offered if and only if the response reports
\* more_in_group > 0.
MoreOfferedIffMoreInGroup ==
    [][\A r \in Reqs("submit") : \A data \in SubmitPayloads(r) :
          (data.correct /\ QuizSubmitOk(r, data))
              => /\ dom'.next
                 /\ dom'.more <=> data.more_in_group > 0]_vars

----------------------------------------------------------------------------
(* Properties of both sessions: a submit without a selection               *)

\* C31: in both sessions a click on submit with no choice checked sends no
\* request and leaves the session state and the page as they are; this
\* includes the multi-select question of the linear session whose submit was
\* enabled by a choice that is unchecked again.
EmptySubmitSendsNothing ==
    [][(dom.checked = {} /\ (PracticeSubmitAnswer \/ QuizSubmitAnswer))
           => /\ pending' = pending
              /\ UNCHANGED <<practiceState, quizState, dom>>]_vars

\* C31, the case: on a multi-select question of the linear session submit
\* is enabled and no choice is checked.
SubmitEnabledNothingChecked ==
    /\ page = "practice"
    /\ dom.area.kind = "mc"
    /\ dom.area.multi
    /\ dom.submit
    /\ ~dom.submitDisabled
    /\ dom.checked = {}

----------------------------------------------------------------------------
(* Properties of the concept-group session: the summary                    *)

\* the recorded groups whose first attempt was correct
FirstTry(scores) == {g \in DOMAIN scores : scores[g].firstAttemptCorrect}

\* a step that ends in showSummary: an advance past the last group, or a
\* display without a current group
SummaryShown ==
    /\ \/ NextTopicClick
       \/ \E r \in Reqs("more") : MoreAllCovered(r)
       \/ \E r \in Reqs("more") : \E q \in Pool(r.group_id) : MoreQuestion(r, q)
       \/ \E r \in Reqs("start") : StartQuizOk(r)
    /\ ~HasCurrentGroup(quizState')

\* C32: the summary of the concept-group session is computed from the
\* outcomes alone: when it is shown the strong list holds exactly the
\* recorded groups whose first attempt was correct, the weak list exactly the
\* other recorded groups with their attempts (a group without an outcome is
\* in neither list), and the final score is the rounded share of recorded
\* groups whose first attempt was correct, 0 when no group is recorded.
SummaryFromOutcomes ==
    [][SummaryShown
           => LET scores == quizState'.scores
              IN /\ dom'.summary
                 /\ dom'.strong = FirstTry(scores)
                 /\ dom'.weak = {[concept |-> g, attempts |-> scores[g].attempts] :
                                    g \in (DOMAIN scores) \ FirstTry(scores)}
                 /\ dom'.covered = Cardinality(DOMAIN scores)
                 /\ dom'.finalScore =
                        IF DOMAIN scores = {} THEN 0
                        ELSE RoundedPercentage(Cardinality(FirstTry(scores)),
                                               Cardinality(DOMAIN scores))]_vars

\* C32, the case: the summary is shown with a group in the strong list, a
\* group in the weak list, and so a final score of 50.
SummaryWithStrongAndWeak ==
    /\ page = "quiz"
    /\ dom.summary
    /\ dom.strong # {}
    /\ dom.weak # {}
    /\ dom.finalScore = 50

----------------------------------------------------------------------------
(* Properties of the concept-group session: the attempts of an outcome     *)

\* C33: the attempt number of the current question is one more than the
\* number of incorrect responses received for it, and that is what a correct
\* answer records: every incorrect response handled for the current question
\* increases the attempt number by exactly one (the collaborator echoes the
\* attempt number it was sent), a correct response that records the outcome
\* of the group records attempts equal to the attempt number and
\* firstAttemptCorrect exactly when it is 1, and on every recorded outcome
\* firstAttemptCorrect holds if and only if attempts = 1.
AttemptsCountIncorrectResponses ==
    [][/\ \A r \in Reqs("submit") : \A data \in SubmitPayloads(r) :
              (/\ QuizSubmitOk(r, data)
               /\ HasCurrentGroup(quizState)
               /\ r.question_id = CurrentGroup(quizState).question)
                  => IF data.correct
                     THEN r.group_id \notin DOMAIN quizState.scores
                              => /\ quizState'.scores[r.group_id].attempts
                                        = quizState.attemptNumber
                                 /\ quizState'.scores[r.group_id].firstAttemptCorrect
                                        <=> quizState.attemptNumber = 1
                     ELSE quizState'.attemptNumber = quizState.attemptNumber + 1
       /\ \A g \in DOMAIN quizState'.scores :
              quizState'.scores[g].firstAttemptCorrect
                  <=> quizState'.scores[g].attempts = 1]_vars

----------------------------------------------------------------------------
(* Properties of the concept-group session: reaching the summary           *)

\* C34: in a concept-group session with N groups the summary is shown
\* exactly when the cursor has reached N (at the start response already when
\* N = 0) and never while a group is current; every next-topic click moves
\* the cursor by one, so N clicks lead from the first group to the summary.
SummaryExactlyAtEnd ==
    [][/\ quizState'.sessionId # 0
              => (dom'.summary <=> ~HasCurrentGroup(quizState'))
       /\ quizState'.sessionId # 0
              => (dom'.interface <=> HasCurrentGroup(quizState'))
       /\ NextTopicClick
              => /\ HasCurrentGroup(quizState)
                 /\ quizState'.currentIndex = quizState.currentIndex + 1
                 /\ quizState'.conceptGroups = quizState.conceptGroups]_vars

----------------------------------------------------------------------------
(* Properties of the concept-group session: late more-from-group responses *)

\* C35: a more-from-group response (exhaustion or a question) whose request
\* was issued while an earlier group of the session was current neither
\* moves the cursor nor changes what the page displays for the later group.
LateMoreResponseInert ==
    [][\A r \in Reqs("more") :
          (/\ r.sid = quizState.sessionId
           /\ r.idx < quizState.currentIndex + 1
           /\ \/ MoreAllCovered(r)
              \/ \E q \in Pool(r.group_id) : MoreQuestion(r, q))
              => /\ quizState'.currentIndex = quizState.currentIndex
                 /\ dom' = dom
                 /\ popup' = popup]_vars

----------------------------------------------------------------------------
(* Properties of the linear session: one count per question                *)

\* C36: in the linear session correctCount + incorrectCount + skippedCount
\* never exceeds the number of questions that have been displayed (the
\* question_number of the last one displayed), and no question is counted
\* both as skipped and as correct or incorrect.
OneCountPerQuestion ==
    page = "practice"
        => /\ practiceState.correctCount + practiceState.incorrectCount
                  + practiceState.skippedCount <= practiceState.questionNumber
           /\ server.skipped \cap (server.correct \cup server.revealed) = {}

----------------------------------------------------------------------------
(* The concept-group page with a double click on start                     *)

MaxStarts == 2      \* start requests of the quiz, the double click included

\* startQuiz, clicked again while a start request is in flight: the setup
\* section is still shown and the button is still enabled
StartQuizDoubleClick ==
    /\ page = "quiz"
    /\ Reqs("ddq") = {}
    /\ dom.setup
    /\ CanSend
    /\ Reqs("start") # {}
    /\ server.nextSid <= MaxStarts
    /\ pending' = Send([kind |-> "start", protocol |-> server.protocol,
                         sid |-> server.nextSid])
    /\ server' = [server EXCEPT !.nextSid = @ + 1]
    /\ UNCHANGED <<page, quizState, practiceState, dom, popup, arrays, msgs>>

DoubleStartInit == Init /\ page = "quiz"

\* the start, answer, advance and restart handlers of the page
DoubleStartNext ==
    \/ \E r \in Reqs("ddq") : LoadDragDropQuestionsOk(r)
    \/ StartQuiz
    \/ StartQuizDoubleClick
    \/ \E r \in Reqs("start") : StartQuizOk(r)
    \/ \E l \in Letters : QuizSelectChoice(l)
    \/ QuizSubmitAnswer
    \/ \E r \in Reqs("submit") : \E data \in SubmitPayloads(r) : QuizSubmitOk(r, data)
    \/ QuizTryAgain
    \/ NextTopicClick
    \/ RestartQuiz

DoubleStartSpec == DoubleStartInit /\ [][DoubleStartNext]_vars

\* the group ids of the session, in order
GroupList(qs) == [i \in 1..Len(qs.conceptGroups) |-> qs.conceptGroups[i].group_id]

\* C37: once a concept-group session has started, every step other than a
\* restart keeps its session token, its group list and its total, removes
\* no group from the outcome map and does not move the cursor back; a second
\* start response that arrives while the session is running does not
\* replace it.
RunningSessionKept ==
    [][(quizState.sessionId # 0 /\ ~RestartQuiz)
          => /\ quizState'.sessionId = quizState.sessionId
             /\ GroupList(quizState') = GroupList(quizState)
             /\ quizState'.totalConcepts = quizState.totalConcepts
             /\ DOMAIN quizState.scores \subseteq DOMAIN quizState'.scores
             /\ quizState'.currentIndex >= quizState.currentIndex]_vars

----------------------------------------------------------------------------
(* Properties of the concept-group session: whose outcomes the map holds   *)

\* C38: every group id with a recorded outcome is the id of a group of the
\* current session located at or before the cursor; a response or message
\* of a session that was restarted adds no outcome.
OutcomesOfSessionGroups ==
    page = "quiz"
        => \A g \in DOMAIN quizState.scores :
               \E i \in 1..Len(quizState.conceptGroups) :
                   /\ quizState.conceptGroups[i].group_id = g
                   /\ i <= quizState.currentIndex + 1

----------------------------------------------------------------------------
(* Properties of the concept-group session: messages that are not handled  *)

\* C39: a window message whose type is not "dragDropComplete", and a
\* "dragDropComplete" message handled when there is no current group (no
\* session started, the last group passed, or after restart), leave the
\* session state (outcome map, attempt number, cursor, popup reference), the
\* page and the popup unchanged.
UnhandledMessageChangesNothing ==
    [][/\ OtherMessage => UNCHANGED <<quizState, dom, popup>>
       /\ \A m \in msgs :
              (~HasCurrentGroup(quizState) /\ DragDropMessage(m))
                  => UNCHANGED <<quizState, dom, popup>>]_vars

\* C39, the case: a failed completion is waiting to be handled and the
\* summary is shown, no group being current.
FailedCompletionAtSummary ==
    /\ page = "quiz"
    /\ dom.summary
    /\ ~HasCurrentGroup(quizState)
    /\ \E m \in msgs : m.type = "dragDropComplete" /\ ~m.correct

============================================================================
